---- MODULE Spec2Model ----
(***************************************************************************)
(* A model of the S-expression calculator of src/parsing.c (the last       *)
(* version in that file, lines 156-470): the lval value type, the reader   *)
(* lval_read, the evaluator lval_eval / lval_eval_sexpr / builtin_op, the  *)
(* printer and the read-evaluate-print cycle of main.                      *)
(*                                                                         *)
(* Strings that the program inspects character by character (numerals,     *)
(* symbol names, literal parentheses) are sequences of one-character       *)
(* strings; the fixed error messages are TLA+ strings.  A `long` is        *)
(* WordBits wide.                                                          *)
(***************************************************************************)
EXTENDS Integers, Sequences, FiniteSets, TLC

VARIABLES build, pc, t, v, x, out

\* the store of lval blocks and the call stack of the evaluator, used by the
\* specification that follows every malloc and free
VARIABLES heap, live, stack, ret, fault, evals

hvars == <<heap, live, stack, ret, fault, evals>>

vars == <<build, pc, t, v, x, out, heap, live, stack, ret, fault, evals>>

(***************************************************************************)
(* Bounds of the model.                                                    *)
(***************************************************************************)
\* width of a long, in bits
WordBits == 4
\* most children of a flat input S-expression
MaxCount == 4
\* most children of an S-expression nested in another, and of a parsed list
NestCount == 3
\* most digits of a numeral
MaxDigits == 2

(***************************************************************************)
(* The value type.                                                         *)
(***************************************************************************)
LVAL_ERR == 0
LVAL_NUM == 1
LVAL_SYM == 2
LVAL_SEXPR == 3

\* errno value strtol sets on a range error
ERANGE == 34

\* the null pointer
NULL == [type |-> -1]

\* the null pointer as an address of the store
NullPtr == 0

\* the process was terminated by a signal (SIGFPE, abort): no value returned
SIGNALLED == [type |-> -2]

RECURSIVE Pow2(_)
Pow2(n) == IF n = 0 THEN 1 ELSE 2 * Pow2(n - 1)

LONG_MAX == Pow2(WordBits - 1) - 1
LONG_MIN == -Pow2(WordBits - 1)

InRange(n) == LONG_MIN <= n /\ n <= LONG_MAX

\* the two's complement value a machine word holds for n
WrapLong(n) == ((n - LONG_MIN) % Pow2(WordBits)) + LONG_MIN

lval_num(n) == [type |-> LVAL_NUM, num |-> n]
lval_err(m) == [type |-> LVAL_ERR, err |-> m]
lval_sym(s) == [type |-> LVAL_SYM, sym |-> s]
lval_sexpr == [type |-> LVAL_SEXPR, count |-> 0, cell |-> <<>>]

lval_add(w, y) ==
    IF w = NULL THEN SIGNALLED
    ELSE [w EXCEPT !.count = w.count + 1, !.cell = Append(w.cell, y)]

\* an S-expression value with the given children
Sexpr(cs) == [type |-> LVAL_SEXPR, count |-> Len(cs), cell |-> cs]

(***************************************************************************)
(* Signed arithmetic on long.  A result outside the range of long is       *)
(* undefined behaviour: the build either wraps it or traps.                *)
(***************************************************************************)
Overflow(r) ==
    IF InRange(r) THEN lval_num(r)
    ELSE IF build = "wrap" THEN lval_num(WrapLong(r))
    ELSE SIGNALLED

\* C division truncates toward zero
TruncDiv(a, b) ==
    LET q == (IF a < 0 THEN -a ELSE a) \div (IF b < 0 THEN -b ELSE b)
    IN  IF (a < 0) = (b < 0) THEN q ELSE -q

(***************************************************************************)
(* strtol(s, NULL, 10) on a numeral -?[0-9]+                               *)
(***************************************************************************)
Digits == <<"0", "1", "2", "3", "4", "5", "6", "7", "8", "9">>

DigitVal(c) == (CHOOSE d \in 1..10 : Digits[d] = c) - 1

RECURSIVE StrtolAcc(_, _, _, _)
\* acc: magnitude so far; limit: largest magnitude that fits
StrtolAcc(s, i, acc, limit) ==
    IF i > Len(s) THEN [mag |-> acc, over |-> FALSE]
    ELSE LET next == acc * 10 + DigitVal(s[i])
         IN  IF next > limit THEN [mag |-> limit, over |-> TRUE]
             ELSE StrtolAcc(s, i + 1, next, limit)

strtol(s) ==
    LET neg == s[1] = "-"
        limit == IF neg THEN -LONG_MIN ELSE LONG_MAX
        r == StrtolAcc(s, IF neg THEN 2 ELSE 1, 0, limit)
    IN  [val |-> IF neg THEN -r.mag ELSE r.mag,
         errno |-> IF r.over THEN ERANGE ELSE 0]

\* the conversion with errno never looked at
lval_read_num_Always(node) == lval_num(strtol(node.contents).val)

lval_read_num(node) ==
    LET r == strtol(node.contents)
    IN  IF r.errno # ERANGE THEN lval_num(r.val) ELSE lval_err("invalid number")


(***************************************************************************)
(* The reader.  A parse-tree node is [tag, contents, children]; a tag is   *)
(* the sequence of the rule names mpc joins with "|".                      *)
(***************************************************************************)
\* strstr(tag, name): the tag names the rule
HasPart(tag, name) == \E i \in 1..Len(tag) : tag[i] = name

RECURSIVE lval_read(_)
RECURSIVE ReadChildren(_, _, _)
\* the loop with the test of the tag "regex" left out
ReadChildren_KeepRegex(node, i, w) ==
    IF i > Len(node.children) THEN w
    ELSE LET c == node.children[i]
         IN  IF c.contents = <<"(">> \/ c.contents = <<")">>
             THEN ReadChildren(node, i + 1, w)
             ELSE LET y == lval_read(c)
                  IN  IF y = SIGNALLED \/ w = SIGNALLED THEN SIGNALLED
                      ELSE ReadChildren(node, i + 1, lval_add(w, y))

\* the loop of lval_read over the children of node, from child i, into w
ReadChildren(node, i, w) ==
    IF i > Len(node.children) THEN w
    ELSE LET c == node.children[i]
         IN  IF c.contents = <<"(">> \/ c.contents = <<")">> \/ c.tag = <<"regex">>
             THEN ReadChildren(node, i + 1, w)
             ELSE LET y == lval_read(c)
                  IN  IF y = SIGNALLED \/ w = SIGNALLED THEN SIGNALLED
                      ELSE ReadChildren(node, i + 1, lval_add(w, y))

lval_read(node) ==
    IF HasPart(node.tag, "number") THEN lval_read_num(node)
    ELSE IF HasPart(node.tag, "symbol") THEN lval_sym(node.contents)
    ELSE LET x0 == IF node.tag = <<">">> THEN lval_sexpr ELSE NULL
             x1 == IF node.tag # <<"sexpr">> THEN lval_sexpr ELSE x0
         IN  ReadChildren(node, 1, x1)

(***************************************************************************)
(* The printer: the text lval_print writes, as a sequence of pieces.       *)
(***************************************************************************)
RECURSIVE DecNat(_)
DecNat(n) == IF n < 10 THEN <<Digits[n + 1]>>
             ELSE Append(DecNat(n \div 10), Digits[(n % 10) + 1])

\* printf("%li", n)
Decimal(n) == IF n < 0 THEN <<"-">> \o DecNat(-n) ELSE DecNat(n)

RECURSIVE lval_print(_)
RECURSIVE lval_expr_print(_, _)
\* the loop with the separating space left out
lval_expr_print_NoSpace(w, i) ==
    IF i > w.count THEN <<>>
    ELSE lval_print(w.cell[i]) \o lval_expr_print(w, i + 1)

\* the loop of lval_expr_print from cell i
lval_expr_print(w, i) ==
    IF i > w.count THEN <<>>
    ELSE lval_print(w.cell[i])
         \o (IF i # w.count THEN <<" ">> ELSE <<>>)
         \o lval_expr_print(w, i + 1)

lval_print(w) ==
    IF w.type = LVAL_NUM THEN Decimal(w.num)
    ELSE IF w.type = LVAL_ERR THEN <<"Error: ", w.err>>
    ELSE IF w.type = LVAL_SYM THEN w.sym
    ELSE <<"(">> \o lval_expr_print(w, 1) \o <<")">>

lval_println(w) == lval_print(w) \o <<"\n">>

(***************************************************************************)
(* The evaluator.                                                          *)
(***************************************************************************)
\* lval_pop with the cell left in the list
lval_pop_NoShift(w, i) == [x |-> w.cell[i + 1], v |-> w]

\* lval_pop(w, i): the extracted cell (x) and the list left behind (v);
\* i counts from 0 as in the source
lval_pop(w, i) ==
    [x |-> w.cell[i + 1],
     v |-> [w EXCEPT !.count = w.count - 1,
                     !.cell = SubSeq(w.cell, 1, i) \o SubSeq(w.cell, i + 2, w.count)]]

lval_take(w, i) == lval_pop(w, i).x

\* one pass of the while loop of builtin_op: y has been popped from a
FoldStep(xv, y, op) ==
    IF op = <<"+">> THEN Overflow(xv.num + y.num)
    ELSE IF op = <<"-">> THEN Overflow(xv.num - y.num)
    ELSE IF op = <<"*">> THEN Overflow(xv.num * y.num)
    ELSE IF op = <<"/">> THEN
        IF y.num = 0 THEN lval_err("Division by zero")
        ELSE Overflow(TruncDiv(xv.num, y.num))
    ELSE xv

RECURSIVE FoldLoop(_, _, _)
\* the while loop of builtin_op: the accumulator and the list at its exit
FoldLoop(xv, a, op) ==
    IF ~(a.count > 0) THEN [x |-> xv, a |-> a]
    ELSE LET p == lval_pop(a, 0)
             r == FoldStep(xv, p.x, op)
         IN  IF r = SIGNALLED \/ r.type = LVAL_ERR THEN [x |-> r, a |-> p.v]
             ELSE FoldLoop(r, p.v, op)

\* builtin_op up to the exit of its loop
FoldExit(a, op) ==
    LET p == lval_pop(a, 0)
        x1 == IF op = <<"-">> /\ p.v.count = 0 THEN Overflow(-p.x.num) ELSE p.x
    IN  IF x1 = SIGNALLED THEN [x |-> SIGNALLED, a |-> p.v]
        ELSE FoldLoop(x1, p.v, op)

\* the operand check made as each operand is popped, after the folds before it
builtin_op_LazyCheck(a, op) ==
    IF \A i \in 1..a.count : a.cell[i].type = LVAL_NUM THEN FoldExit(a, op).x
    ELSE LET k == CHOOSE i \in 1..a.count :
                    /\ a.cell[i].type # LVAL_NUM
                    /\ \A j \in 1..(i - 1) : a.cell[j].type = LVAL_NUM
             r == FoldExit([a EXCEPT !.count = k - 1, !.cell = SubSeq(a.cell, 1, k - 1)],
                           op).x
         IN  IF k > 1 /\ (r = SIGNALLED \/ r.type = LVAL_ERR) THEN r
             ELSE lval_err("Cannot operate on a non-number")

builtin_op(a, op) ==
    IF \E i \in 1..a.count : a.cell[i].type # LVAL_NUM
    THEN lval_err("Cannot operate on a non-number")
    ELSE FoldExit(a, op).x

\* the scan returning the last Error cell instead of the first
FirstErr_Last(w) ==
    IF \E i \in 1..w.count : w.cell[i].type = LVAL_ERR
    THEN CHOOSE i \in 1..w.count :
            /\ w.cell[i].type = LVAL_ERR
            /\ \A j \in (i + 1)..w.count : w.cell[j].type # LVAL_ERR
    ELSE 0

\* index (from 1) of the first Error cell of w, 0 when there is none
FirstErr(w) ==
    IF \E i \in 1..w.count : w.cell[i].type = LVAL_ERR
    THEN CHOOSE i \in 1..w.count :
            /\ w.cell[i].type = LVAL_ERR
            /\ \A j \in 1..(i - 1) : w.cell[j].type # LVAL_ERR
    ELSE 0

\* a list of one child returned as it is, the child not taken out
EvalReduced_NoElision(w) ==
    IF FirstErr(w) # 0 THEN lval_take(w, FirstErr(w) - 1)
    ELSE IF w.count = 0 THEN w
    ELSE IF w.count = 1 THEN w
    ELSE LET p == lval_pop(w, 0)
         IN  IF p.x.type # LVAL_SYM
             THEN lval_err("S-Expression does not start with a symbol")
             ELSE builtin_op(p.v, p.x.sym)

\* a head that is no Symbol returned as the result instead of an Error
EvalReduced_HeadReturned(w) ==
    IF FirstErr(w) # 0 THEN lval_take(w, FirstErr(w) - 1)
    ELSE IF w.count = 0 THEN w
    ELSE IF w.count = 1 THEN lval_take(w, 0)
    ELSE LET p == lval_pop(w, 0)
         IN  IF p.x.type # LVAL_SYM
             THEN p.x
             ELSE builtin_op(p.v, p.x.sym)

\* the list itself returned where a child is an Error
EvalReduced_ErrorKept(w) ==
    IF FirstErr(w) # 0 THEN w
    ELSE IF w.count = 0 THEN w
    ELSE IF w.count = 1 THEN lval_take(w, 0)
    ELSE LET p == lval_pop(w, 0)
         IN  IF p.x.type # LVAL_SYM
             THEN lval_err("S-Expression does not start with a symbol")
             ELSE builtin_op(p.v, p.x.sym)

\* lval_eval_sexpr after its first loop: w has its children evaluated
EvalReduced(w) ==
    IF FirstErr(w) # 0 THEN lval_take(w, FirstErr(w) - 1)
    ELSE IF w.count = 0 THEN w
    ELSE IF w.count = 1 THEN lval_take(w, 0)
    ELSE LET p == lval_pop(w, 0)
         IN  IF p.x.type # LVAL_SYM
             THEN lval_err("S-Expression does not start with a symbol")
             ELSE builtin_op(p.v, p.x.sym)

RECURSIVE lval_eval(_)
RECURSIVE EvalCells(_, _)
\* the first loop of lval_eval_sexpr from cell i: v->cell[i] = lval_eval(v->cell[i])
EvalCells(w, i) ==
    IF i > w.count THEN w
    ELSE LET r == lval_eval(w.cell[i])
         IN  IF r = SIGNALLED THEN SIGNALLED
             ELSE EvalCells([w EXCEPT !.cell[i] = r], i + 1)

lval_eval_sexpr(w) ==
    LET r == EvalCells(w, 1)
    IN  IF r = SIGNALLED THEN SIGNALLED ELSE EvalReduced(r)

lval_eval(w) ==
    IF w.type = LVAL_SEXPR THEN lval_eval_sexpr(w) ELSE w


(***************************************************************************)
(* Inputs.                                                                 *)
(***************************************************************************)
SeqsUpTo(S, n) == UNION {[1..k -> S] : k \in 0..n}

\* the parse trees mpc builds for the grammar of main
NumNode(s) == [tag |-> <<"expr", "number", "regex">>, contents |-> s, children |-> <<>>]
SymNode(s) == [tag |-> <<"expr", "symbol", "char">>, contents |-> s, children |-> <<>>]
CharNode(c) == [tag |-> <<"char">>, contents |-> <<c>>, children |-> <<>>]
RegexNode == [tag |-> <<"regex">>, contents |-> <<>>, children |-> <<>>]
SexprNode(es) == [tag |-> <<"expr", "sexpr", ">">>, contents |-> <<>>,
                  children |-> <<CharNode("(")>> \o es \o <<CharNode(")")>>]
RootNode(es) == [tag |-> <<">">>, contents |-> <<>>,
                 children |-> <<RegexNode>> \o es \o <<RegexNode>>]

DigitChars == {Digits[i] : i \in 1..10}

\* -?[0-9]+ of at most MaxDigits digits
Numerals ==
    LET ds == SeqsUpTo(DigitChars, MaxDigits) \ {<<>>}
    IN  ds \cup {<<"-">> \o d : d \in ds}

\* the operators of the grammar
OpNames == {<<"+">>, <<"-">>, <<"*">>, <<"/">>}

\* numbers at the edges of long and around zero
EdgeNums == {LONG_MIN, -1, 0, 2}

ExprLeaves ==
    {NumNode(Decimal(n)) : n \in EdgeNums \cup {LONG_MAX + 1}}
        \cup {SymNode(s) : s \in OpNames}

(***************************************************************************)
(* mpc_parse under the grammar of main, on a text of single characters:    *)
(* white space between tokens is skipped, a number is tried before a       *)
(* symbol, and the nodes carry the tags of the constructors above.         *)
(***************************************************************************)
IsSpace(c) == c \in {" ", "\n"}

RECURSIVE SkipSpace(_, _)
\* the first position from i on that holds no white space
SkipSpace(s, i) ==
    IF i <= Len(s) /\ IsSpace(s[i]) THEN SkipSpace(s, i + 1) ELSE i

RECURSIVE DigitsEnd(_, _)
\* the first position from i on that holds no digit
DigitsEnd(s, i) ==
    IF i <= Len(s) /\ s[i] \in DigitChars THEN DigitsEnd(s, i + 1) ELSE i

\* number : /-?[0-9]+/ matches at position j
NumberAt(s, j) ==
    \/ s[j] \in DigitChars
    \/ s[j] = "-" /\ j + 1 <= Len(s) /\ s[j + 1] \in DigitChars

RECURSIVE ParseExprs(_, _)
\* <expr>* from position i: the nodes matched and the position after them
ParseExprs(s, i) ==
    LET j == SkipSpace(s, i)
    IN  IF j > Len(s) THEN [ok |-> TRUE, nodes |-> <<>>, pos |-> j]
        ELSE IF NumberAt(s, j) THEN
            LET e == DigitsEnd(s, j + 1)
                r == ParseExprs(s, e)
            IN  [r EXCEPT !.nodes = <<NumNode(SubSeq(s, j, e - 1))>> \o r.nodes]
        ELSE IF <<s[j]>> \in OpNames THEN
            LET r == ParseExprs(s, j + 1)
            IN  [r EXCEPT !.nodes = <<SymNode(<<s[j]>>)>> \o r.nodes]
        ELSE IF s[j] = "(" THEN
            LET inner == ParseExprs(s, j + 1)
                k == SkipSpace(s, inner.pos)
            IN  IF inner.ok /\ k <= Len(s) /\ s[k] = ")"
                THEN LET r == ParseExprs(s, k + 1)
                     IN  [r EXCEPT !.nodes = <<SexprNode(inner.nodes)>> \o r.nodes]
                ELSE [ok |-> FALSE, nodes |-> <<>>, pos |-> k]
        ELSE [ok |-> TRUE, nodes |-> <<>>, pos |-> j]

\* lispy : /^/ <expr>* /$/
mpc_parse(s) ==
    LET r == ParseExprs(s, 1)
    IN  IF r.ok /\ r.pos > Len(s)
        THEN [ok |-> TRUE, output |-> RootNode(r.nodes)]
        ELSE [ok |-> FALSE, output |-> NULL]

\* the lines main reads: one numeral, a flat line, one parenthesised list,
\* a list inside a list
IsParseTree(node) ==
    \/ \E s \in Numerals : node = RootNode(<<NumNode(s)>>)
    \/ \E k \in 0..NestCount : \E es \in [1..k -> ExprLeaves] :
            node = RootNode(es) \/ node = RootNode(<<SexprNode(es)>>)
    \/ \E k \in 0..(NestCount - 1) : \E es \in [1..k -> ExprLeaves] :
            node = RootNode(<<SexprNode(<<SymNode(<<"+">>), SexprNode(es)>>)>>)

\* value trees for the evaluator taken alone
Leaves ==
    {lval_num(n) : n \in EdgeNums}
        \cup {lval_sym(s) : s \in OpNames \cup {<<"%">>}}
        \cup {lval_err("invalid number")}

NestLeaves ==
    {lval_num(2), lval_num(LONG_MIN), lval_sym(<<"-">>), lval_err("invalid number")}

Inner == NestLeaves \cup {Sexpr(cs) : cs \in SeqsUpTo(NestLeaves, NestCount)}

\* a leaf, a flat list of leaves, or a list of one or two nested lists
IsValueTree(w) ==
    \/ w \in Leaves
    \/ \E k \in 0..MaxCount : \E cs \in [1..k -> Leaves] : w = Sexpr(cs)
    \/ \E a \in Inner :
            \/ w = Sexpr(<<a>>)
            \/ w = Sexpr(<<Sexpr(<<a>>)>>)
            \/ \E b \in Inner : w = Sexpr(<<a, b>>)

(***************************************************************************)
(* The read-evaluate-print cycle of main.                                  *)
(***************************************************************************)
Builds == {"wrap", "trap"}

\* nothing allocated, nothing running
HeapIdle ==
    /\ heap = <<>>
    /\ live = {}
    /\ stack = <<>>
    /\ ret = NullPtr
    /\ fault = ""
    /\ evals = <<>>

Init ==
    /\ HeapIdle
    /\ build \in Builds
    /\ pc = "readline"
    /\ t = NULL
    /\ v = NULL
    /\ x = NULL
    /\ out = <<>>

\* readline and mpc_parse: a line that parses
Readline ==
    /\ UNCHANGED hvars
    /\ pc = "readline"
    /\ IsParseTree(t')
    /\ pc' = "read"
    /\ UNCHANGED <<build, v, x, out>>

\* lval_read(r.output)
LvalRead ==
    /\ UNCHANGED hvars
    /\ pc = "read"
    /\ LET r == lval_read(t)
       IN  IF r = SIGNALLED
           THEN pc' = "crashed" /\ v' = v
           ELSE pc' = "eval" /\ v' = r
    /\ UNCHANGED <<build, t, x, out>>

\* lval* x = lval_eval(...)
LvalEval ==
    /\ UNCHANGED hvars
    /\ pc = "eval"
    /\ LET r == lval_eval(v)
       IN  IF r = SIGNALLED
           THEN pc' = "crashed" /\ x' = x
           ELSE pc' = "print" /\ x' = r
    /\ UNCHANGED <<build, t, v, out>>

\* lval_println(x)
LvalPrintln ==
    /\ UNCHANGED hvars
    /\ pc = "print"
    /\ out' = lval_println(x)
    /\ pc' = "del"
    /\ UNCHANGED <<build, t, v, x>>

\* lval_del(x), free(input); r and x go out of scope, the next prompt follows
LvalDel ==
    /\ UNCHANGED hvars
    /\ pc = "del"
    /\ x' = NULL
    /\ v' = NULL
    /\ t' = NULL
    /\ out' = <<>>
    /\ pc' = "readline"
    /\ UNCHANGED build

Next == Readline \/ LvalRead \/ LvalEval \/ LvalPrintln \/ LvalDel

Spec == Init /\ [][Next]_vars

(***************************************************************************)
(* The evaluator applied to a value tree.                                  *)
(***************************************************************************)
InitEval ==
    /\ HeapIdle
    /\ build \in Builds
    /\ pc = "eval"
    /\ t = NULL
    /\ IsValueTree(v)
    /\ x = NULL
    /\ out = <<>>

NextEval == LvalEval

SpecEval == InitEval /\ [][NextEval]_vars

(***************************************************************************)
(* The printer followed by the parser and the reader: a value is printed   *)
(* and the text printed is read back as the next line.                     *)
(***************************************************************************)
InitPrint ==
    /\ HeapIdle
    /\ build \in Builds
    /\ pc = "print"
    /\ t = NULL
    /\ v = NULL
    /\ IsValueTree(x)
    /\ out = <<>>

\* mpc_parse of the text printed, when it parses
Reparse ==
    /\ UNCHANGED hvars
    /\ pc = "del"
    /\ mpc_parse(out).ok
    /\ t' = mpc_parse(out).output
    /\ pc' = "read"
    /\ UNCHANGED <<build, v, x, out>>

NextPrint == LvalPrintln \/ Reparse \/ LvalRead

SpecPrint == InitPrint /\ [][NextPrint]_vars

(***************************************************************************)
(* The store.  An lval block lives at an address; the cells of an          *)
(* S-expression hold addresses.  malloc hands out a fresh address, free    *)
(* takes it out of live; a block released twice, or read after its         *)
(* release, is recorded in fault.                                          *)
(***************************************************************************)
\* the store as one value
Store == [heap |-> heap, live |-> live, fault |-> fault]

\* the address the next malloc returns
Fresh(H) == Len(H.heap) + 1

\* malloc(sizeof(lval)) and the initialisation of the constructors
Alloc(H, w) ==
    [H EXCEPT !.heap = Append(@, w), !.live = @ \cup {Fresh(H)}]

\* free(p)
Free(H, p) ==
    IF p \in H.live THEN [H EXCEPT !.live = @ \ {p}]
    ELSE [H EXCEPT !.fault = "released twice"]

\* a read of the blocks at the addresses ps
DerefAll(H, ps) ==
    IF ps \subseteq H.live \/ H.fault # "" THEN H
    ELSE [H EXCEPT !.fault = "read after release"]

\* a read of the block at p
Deref(H, p) == DerefAll(H, {p})

RECURSIVE lval_del(_, _)
RECURSIVE DelCells(_, _, _)
\* the loop of lval_del over the cells cs, from cell i
DelCells(H, cs, i) ==
    IF i > Len(cs) THEN H ELSE DelCells(lval_del(H, cs[i]), cs, i + 1)

lval_del(H, p) ==
    IF p \notin H.live THEN [H EXCEPT !.fault = "released twice"]
    ELSE IF H.heap[p].type = LVAL_SEXPR
    THEN Free(DelCells(H, H.heap[p].cell, 1), p)
    ELSE Free(H, p)

RECURSIVE StoreTree(_, _)
RECURSIVE StoreCells(_, _, _, _)
\* lval_add of the blocks of the children cs, from child i, to the block at p
StoreCells(H, p, cs, i) ==
    IF i > Len(cs) THEN H
    ELSE LET r == StoreTree(H, cs[i])
         IN  StoreCells([r.h EXCEPT !.heap[p] = lval_add(@, r.x)], p, cs, i + 1)

\* the blocks lval_read allocates for the value w it returns: h is the store
\* after, x the address of w
StoreTree(H, w) ==
    IF w.type = LVAL_SEXPR
    THEN [h |-> StoreCells(Alloc(H, lval_sexpr), Fresh(H), w.cell, 1),
          x |-> Fresh(H)]
    ELSE [h |-> Alloc(H, w), x |-> Fresh(H)]

RECURSIVE Decode(_, _)
\* the value tree whose root is the block at p
Decode(H, p) ==
    LET b == H.heap[p]
    IN  IF b.type = LVAL_SEXPR
        THEN Sexpr([j \in 1..Len(b.cell) |-> Decode(H, b.cell[j])])
        ELSE b

\* lval_pop on the block at p
lval_pop_heap(H, p, i) ==
    [h |-> [Deref(H, p) EXCEPT !.heap[p] = lval_pop(@, i).v],
     x |-> H.heap[p].cell[i + 1]]

\* lval_take with the lval_del left out
lval_take_heap_NoDel(H, p, i) == lval_pop_heap(H, p, i)

\* lval_take on the block at p
lval_take_heap(H, p, i) ==
    LET r == lval_pop_heap(H, p, i)
    IN  [h |-> lval_del(r.h, p), x |-> r.x]

(***************************************************************************)
(* The cycle of main with the calls of lval_eval, lval_eval_sexpr and      *)
(* builtin_op taken statement by statement.  A frame of the stack is one   *)
(* activation of lval_eval_sexpr with its locals v, i and f and, once      *)
(* builtin_op has been called, a, op and x of that call; at names the      *)
(* statement the activation is at.  ret is the pointer a call has          *)
(* returned and the caller has not stored yet; in main it is x.            *)
(***************************************************************************)
Frame(p) ==
    [v |-> p, i |-> 0, f |-> NullPtr, a |-> NullPtr, x |-> NullPtr,
     op |-> <<>>, at |-> "cells"]

Top == stack[Len(stack)]

\* the stack with its top frame replaced
WithTop(fr) == [stack EXCEPT ![Len(stack)] = fr]

\* the store H becomes the store of the next state
Commit(H) ==
    /\ heap' = H.heap
    /\ live' = H.live
    /\ fault' = H.fault

\* return r; from the top activation: the caller is left at the assignment
\* that stores the result
Return(r) ==
    /\ ret' = r
    /\ stack' = IF Len(stack) = 1 THEN <<>>
                ELSE [SubSeq(stack, 1, Len(stack) - 1)
                        EXCEPT ![Len(stack) - 1].at = "store"]

\* the process is terminated by a signal
Signal ==
    /\ pc' = "crashed"
    /\ UNCHANGED <<heap, live, fault, stack, ret>>

\* lists inside a list side by side, for the exits of a nested call
HeapLeaves ==
    {NumNode(Decimal(n)) : n \in {LONG_MIN, 0, 2}}
        \cup {SymNode(<<"/">>), SymNode(<<"-">>)}

HeapSiblings ==
    {<<SymNode(<<"/">>), NumNode(<<"2">>), NumNode(<<"0">>)>>,
     <<SymNode(<<"-">>), NumNode(Decimal(LONG_MIN))>>,
     <<SymNode(<<"/">>), NumNode(Decimal(LONG_MIN)), NumNode(<<"-", "1">>)>>,
     <<NumNode(<<"2">>), SymNode(<<"-">>)>>,
     <<>>}

IsHeapLine(node) ==
    \/ IsParseTree(node)
    \/ \E k \in 0..NestCount : \E es \in [1..k -> HeapLeaves] :
       \E fs \in HeapSiblings :
            node = RootNode(<<SexprNode(<<SymNode(<<"+">>), SexprNode(es),
                                          SexprNode(fs)>>)>>)

InitHeap ==
    /\ HeapIdle
    /\ build \in Builds
    /\ pc = "readline"
    /\ t = NULL
    /\ v = NULL
    /\ x = NULL
    /\ out = <<>>

\* readline and mpc_parse: a line that parses
HeapReadline ==
    /\ pc = "readline"
    /\ IsHeapLine(t')
    /\ pc' = "read"
    /\ out' = <<>>
    /\ UNCHANGED <<build, v, x>>
    /\ UNCHANGED hvars

\* lval_read(r.output): the blocks of the tree read
HeapRead ==
    /\ pc = "read"
    /\ LET r == StoreTree(Store, lval_read(t))
       IN  /\ Commit(r.h)
           /\ ret' = r.x
    /\ v' = lval_read(t)
    /\ pc' = "eval"
    /\ UNCHANGED <<build, t, x, out, stack, evals>>

\* lval_eval(v) called by main
EvalCall ==
    /\ pc = "eval"
    /\ evals' = Append(evals, ret)
    /\ IF heap[ret].type = LVAL_SEXPR
       THEN stack' = <<Frame(ret)>> /\ ret' = NullPtr
       ELSE UNCHANGED <<stack, ret>>
    /\ Commit(Deref(Store, ret))
    /\ pc' = "running"
    /\ UNCHANGED <<build, t, v, x, out>>

Running == pc = "running" /\ stack # <<>>

\* v->cell[i] = lval_eval(v->cell[i]) for a child that is no S-expression
EvalCell ==
    /\ Running
    /\ Top.at = "cells"
    /\ Top.i < heap[Top.v].count
    /\ LET c == heap[Top.v].cell[Top.i + 1]
       IN  /\ heap[c].type # LVAL_SEXPR
           /\ evals' = Append(evals, c)
           /\ Commit(Deref(Deref(Store, Top.v), c))
    /\ stack' = WithTop([Top EXCEPT !.i = @ + 1])
    /\ UNCHANGED <<build, pc, t, v, x, out, ret>>

\* lval_eval(v->cell[i]) for a child that is an S-expression: the call
EvalCellCall ==
    /\ Running
    /\ Top.at = "cells"
    /\ Top.i < heap[Top.v].count
    /\ LET c == heap[Top.v].cell[Top.i + 1]
       IN  /\ heap[c].type = LVAL_SEXPR
           /\ evals' = Append(evals, c)
           /\ Commit(Deref(Deref(Store, Top.v), c))
           /\ stack' = Append(stack, Frame(c))
    /\ UNCHANGED <<build, pc, t, v, x, out, ret>>

\* v->cell[i] = the value the call returned
EvalCellStore ==
    /\ Running
    /\ Top.at = "store"
    /\ Commit([Deref(Store, Top.v) EXCEPT !.heap[Top.v].cell[Top.i + 1] = ret])
    /\ ret' = NullPtr
    /\ stack' = WithTop([Top EXCEPT !.i = @ + 1, !.at = "cells"])
    /\ UNCHANGED <<build, pc, t, v, x, out, evals>>

\* the loop over the cells is over
Scanning ==
    /\ Running
    /\ Top.at = "cells"
    /\ Top.i = heap[Top.v].count

\* the cells of the block at p, as blocks
CellsOf(p) == [j \in 1..heap[p].count |-> heap[heap[p].cell[j]]]

\* the store after the loops that read the type of every cell of the block at p
Scanned(p) == DerefAll(Deref(Store, p), {heap[p].cell[j] : j \in 1..heap[p].count})

\* return lval_take(v, i) at the first Error
EvalError ==
    /\ Scanning
    /\ FirstErr(Sexpr(CellsOf(Top.v))) # 0
    /\ LET r == lval_take_heap(Scanned(Top.v), Top.v, FirstErr(Sexpr(CellsOf(Top.v))) - 1)
       IN  /\ Commit(r.h)
           /\ Return(r.x)
    /\ UNCHANGED <<build, pc, t, v, x, out, evals>>

\* if (v->count == 0) return v
EvalEmpty ==
    /\ Scanning
    /\ heap[Top.v].count = 0
    /\ Commit(Deref(Store, Top.v))
    /\ Return(Top.v)
    /\ UNCHANGED <<build, pc, t, v, x, out, evals>>

\* if (v->count == 1) return lval_take(v, 0)
EvalSingle ==
    /\ Scanning
    /\ FirstErr(Sexpr(CellsOf(Top.v))) = 0
    /\ heap[Top.v].count = 1
    /\ LET r == lval_take_heap(Scanned(Top.v), Top.v, 0)
       IN  /\ Commit(r.h)
           /\ Return(r.x)
    /\ UNCHANGED <<build, pc, t, v, x, out, evals>>

\* f = lval_pop(v, 0) is no Symbol: lval_del(f), lval_del(v), the Error
EvalBadHead ==
    /\ Scanning
    /\ FirstErr(Sexpr(CellsOf(Top.v))) = 0
    /\ heap[Top.v].count > 1
    /\ LET r == lval_pop_heap(Scanned(Top.v), Top.v, 0)
           H1 == lval_del(lval_del(Deref(r.h, r.x), r.x), Top.v)
       IN  /\ r.h.heap[r.x].type # LVAL_SYM
           /\ Commit(Alloc(H1, lval_err("S-Expression does not start with a symbol")))
           /\ Return(Fresh(H1))
    /\ UNCHANGED <<build, pc, t, v, x, out, evals>>

\* f = lval_pop(v, 0) is a Symbol: builtin_op(v, f->sym) is called
EvalOp ==
    /\ Scanning
    /\ FirstErr(Sexpr(CellsOf(Top.v))) = 0
    /\ heap[Top.v].count > 1
    /\ LET r == lval_pop_heap(Scanned(Top.v), Top.v, 0)
       IN  /\ r.h.heap[r.x].type = LVAL_SYM
           /\ Commit(Deref(r.h, r.x))
           /\ stack' = WithTop([Top EXCEPT !.f = r.x, !.a = Top.v, !.v = NullPtr,
                                           !.op = r.h.heap[r.x].sym,
                                           !.at = "check"])
    /\ UNCHANGED <<build, pc, t, v, x, out, ret, evals>>

\* builtin_op: an operand is no Number: lval_del(a), the Error
BuiltinMismatch ==
    /\ Running
    /\ Top.at = "check"
    /\ \E j \in 1..heap[Top.a].count : CellsOf(Top.a)[j].type # LVAL_NUM
    /\ LET H1 == lval_del(Scanned(Top.a), Top.a)
       IN  /\ Commit(Alloc(H1, lval_err("Cannot operate on a non-number")))
           /\ stack' = WithTop([Top EXCEPT !.a = NullPtr, !.x = Fresh(H1),
                                           !.at = "delf"])
    /\ UNCHANGED <<build, pc, t, v, x, out, ret, evals>>

\* builtin_op: x = lval_pop(a, 0) and the negation of a lone operand of "-"
BuiltinFirst ==
    /\ Running
    /\ Top.at = "check"
    /\ \A j \in 1..heap[Top.a].count : CellsOf(Top.a)[j].type = LVAL_NUM
    /\ LET r == lval_pop_heap(Scanned(Top.a), Top.a, 0)
           n == IF Top.op = <<"-">> /\ r.h.heap[Top.a].count = 0
                THEN Overflow(-r.h.heap[r.x].num)
                ELSE r.h.heap[r.x]
       IN  IF n = SIGNALLED THEN Signal
           ELSE /\ Commit([DerefAll(r.h, {r.x, Top.f}) EXCEPT !.heap[r.x] = n])
                /\ stack' = WithTop([Top EXCEPT !.x = r.x, !.at = "fold"])
                /\ UNCHANGED <<pc, ret>>
    /\ UNCHANGED <<build, t, v, x, out, evals>>

\* one pass of the while loop: y = lval_pop(a, 0), the operation, lval_del(y);
\* a zero divisor releases x and y, makes x the Error and leaves the loop
FoldIter ==
    /\ Running
    /\ Top.at = "fold"
    /\ heap[Top.a].count > 0
    /\ LET r == lval_pop_heap(Store, Top.a, 0)
           H0 == DerefAll(r.h, {Top.x, r.x, Top.f})
           n == FoldStep(heap[Top.x], heap[r.x], Top.op)
       IN  IF n = SIGNALLED THEN Signal
           ELSE IF n.type = LVAL_ERR
           THEN LET H1 == lval_del(lval_del(H0, Top.x), r.x)
                IN  /\ Commit(Alloc(H1, n))
                    /\ stack' = WithTop([Top EXCEPT !.x = Fresh(H1), !.at = "dela"])
                    /\ UNCHANGED <<pc, ret>>
           ELSE /\ Commit(lval_del([H0 EXCEPT !.heap[Top.x] = n], r.x))
                /\ UNCHANGED <<pc, ret, stack>>
    /\ UNCHANGED <<build, t, v, x, out, evals>>

\* the loop is left: lval_del(a); return x
BuiltinReturn ==
    /\ Running
    /\ \/ Top.at = "dela"
       \/ Top.at = "fold" /\ heap[Top.a].count = 0
    /\ Commit(lval_del(Store, Top.a))
    /\ stack' = WithTop([Top EXCEPT !.a = NullPtr, !.at = "delf"])
    /\ UNCHANGED <<build, pc, t, v, x, out, ret, evals>>

\* lval_del(f); return result
EvalReturn ==
    /\ Running
    /\ Top.at = "delf"
    /\ Commit(lval_del(Store, Top.f))
    /\ Return(Top.x)
    /\ UNCHANGED <<build, pc, t, v, x, out, evals>>

\* lval* x = the value lval_eval returned
EvalDone ==
    /\ pc = "running"
    /\ stack = <<>>
    /\ Commit(Deref(Store, ret))
    /\ x' = Decode(Store, ret)
    /\ pc' = "print"
    /\ UNCHANGED <<build, t, v, out, stack, ret, evals>>

\* lval_println(x)
HeapPrintln ==
    /\ pc = "print"
    /\ Commit(Deref(Store, ret))
    /\ out' = lval_println(Decode(Store, ret))
    /\ pc' = "del"
    /\ UNCHANGED <<build, t, v, x, stack, ret, evals>>

\* lval_del(x), free(input); the next prompt follows.  The addresses of a
\* store with nothing live are forgotten.
HeapDel ==
    /\ pc = "del"
    /\ LET H1 == lval_del(Store, ret)
       IN  /\ live' = H1.live
           /\ fault' = H1.fault
           /\ heap' = IF H1.live = {} THEN <<>> ELSE H1.heap
    /\ ret' = NullPtr
    /\ evals' = <<>>
    /\ x' = NULL
    /\ v' = NULL
    /\ t' = NULL
    /\ pc' = "readline"
    /\ UNCHANGED <<build, out, stack>>

\* the steps the program takes by itself
EvalStep ==
    \/ EvalCall \/ EvalCell \/ EvalCellCall \/ EvalCellStore
    \/ EvalError \/ EvalEmpty \/ EvalSingle \/ EvalBadHead \/ EvalOp
    \/ BuiltinMismatch \/ BuiltinFirst \/ FoldIter \/ BuiltinReturn
    \/ EvalReturn \/ EvalDone

NextHeap == HeapReadline \/ HeapRead \/ EvalStep \/ HeapPrintln \/ HeapDel

SpecHeap == InitHeap /\ [][NextHeap]_vars

\* One line from lval_read to the end of its cycle.  The program is
\* sequential and never waits inside the evaluation: a step of the evaluator
\* that can be taken is taken.
IsNestedLine(node) ==
    \E k \in 0..(NestCount - 1) : \E es \in [1..k -> HeapLeaves] :
    \E fs \in HeapSiblings :
        node = RootNode(<<SexprNode(<<SymNode(<<"+">>), SexprNode(es),
                                      SexprNode(fs)>>)>>)

InitLine ==
    /\ HeapIdle
    /\ build \in Builds
    /\ pc = "read"
    /\ IsNestedLine(t)
    /\ v = NULL
    /\ x = NULL
    /\ out = <<>>

NextLine == HeapRead \/ EvalStep \/ HeapPrintln \/ HeapDel

SpecLine == InitLine /\ [][NextLine]_vars /\ WF_vars(EvalStep)


(***************************************************************************)
(* What the claims speak of.                                               *)
(***************************************************************************)
\* the evaluation of v has ended, with a value or with the process killed
Evaluated == pc \in {"print", "del", "crashed"}

Outcome == IF pc = "crashed" THEN SIGNALLED ELSE x

RECURSIVE SubTrees(_)
\* w and every value below it
SubTrees(w) ==
    IF w.type = LVAL_SEXPR
    THEN {w} \cup UNION {SubTrees(w.cell[i]) : i \in 1..w.count}
    ELSE {w}

SubSexprs(w) == {s \in SubTrees(w) : s.type = LVAL_SEXPR}

\* what evaluating the sub-expression s of v gives; for v itself, what main got
OutcomeOf(s) == IF s = v THEN Outcome ELSE lval_eval(s)

\* the children of s, each evaluated on its own
Reduced(s) == [i \in 1..s.count |-> lval_eval(s.cell[i])]

AllReduced(s) == \A i \in 1..s.count : Reduced(s)[i] # SIGNALLED

IsErr(w) == w.type = LVAL_ERR
IsNum(w) == w.type = LVAL_NUM
IsSym(w) == w.type = LVAL_SYM

\* C1: first-error-wins: when the reduced children of an S-expression hold
\* an Error, the S-expression evaluates to the leftmost one, whatever the
\* other children are.
C1_FirstErrorWins ==
    Evaluated =>
        \A s \in SubSexprs(v) :
            LET r == Reduced(s)
            IN  (AllReduced(s) /\ \E i \in 1..s.count : IsErr(r[i])) =>
                    \E i \in 1..s.count :
                        /\ IsErr(r[i])
                        /\ \A j \in 1..(i - 1) : ~IsErr(r[j])
                        /\ OutcomeOf(s) = r[i]

\* two children reduce to Errors with different messages; the first is returned
C1_Witness ==
    /\ pc = "print"
    /\ v.type = LVAL_SEXPR /\ v.count = 2
    /\ IsErr(Reduced(v)[1]) /\ IsErr(Reduced(v)[2])
    /\ Reduced(v)[1].err # Reduced(v)[2].err
    /\ x = Reduced(v)[1]

\* an Error after a Number head and after a Symbol operand is still returned
C1_WitnessPrecedence ==
    /\ pc = "print"
    /\ v.type = LVAL_SEXPR /\ v.count = 3
    /\ IsNum(v.cell[1]) /\ IsSym(v.cell[2]) /\ IsErr(v.cell[3])
    /\ x = v.cell[3]


\* s is an operator application: its children reduce, without an Error, to
\* a Symbol followed by one or more values
IsApplication(s) ==
    /\ AllReduced(s)
    /\ s.count >= 2
    /\ \A i \in 1..s.count : ~IsErr(Reduced(s)[i])
    /\ IsSym(Reduced(s)[1])

OpOf(s) == Reduced(s)[1].sym

\* the operands n1..nk of an application whose operands are all Numbers
NumsOf(s) == [i \in 1..(s.count - 1) |-> Reduced(s)[i + 1].num]

AllNums(s) == \A i \in 2..s.count : IsNum(Reduced(s)[i])

Abs(n) == IF n < 0 THEN -n ELSE n

\* the integer quotient truncated toward zero: a = q * b + r, |r| < |b|, r
\* of the sign of a
Quotient(a, b) ==
    CHOOSE q \in -Abs(a)..Abs(a) :
        LET r == a - q * b
        IN  Abs(r) < Abs(b) /\ (r = 0 \/ (r < 0) = (a < 0))

Apply(op, a, b) ==
    IF op = <<"+">> THEN a + b
    ELSE IF op = <<"-">> THEN a - b
    ELSE IF op = <<"*">> THEN a * b
    ELSE Quotient(a, b)

RECURSIVE LeftFold(_, _, _)
\* ((n1 op n2) op n3) ... op nk, over the integers
LeftFold(op, ns, k) ==
    IF k = 1 THEN ns[1] ELSE Apply(op, LeftFold(op, ns, k - 1), ns[k])

\* the first k operands fold without leaving the range of long
FoldsInRange(op, ns, k) == \A j \in 1..k : InRange(LeftFold(op, ns, j))

\* C2: left fold correctness: a Symbol + - * / applied to two or more
\* Numbers (no zero divisor under /) evaluates to the Number
\* ((n1 op n2) op n3) ... op nk, / truncating toward zero.
C2_LeftFold ==
    Evaluated =>
        \A s \in SubSexprs(v) :
            ( /\ IsApplication(s) /\ AllNums(s) /\ s.count >= 3
              /\ OpOf(s) \in OpNames
              /\ OpOf(s) = <<"/">> => \A i \in 2..(s.count - 1) : NumsOf(s)[i] # 0 )
            => OutcomeOf(s) = lval_num(LeftFold(OpOf(s), NumsOf(s), s.count - 1))

\* C3: division by zero: / with a zero divisor among n2..nk is the Error
\* "Division by zero"; a zero dividend alone is no Error; a zero operand of
\* + - * is never an Error.
C3_DivisionByZero ==
    Evaluated =>
        \A s \in SubSexprs(v) :
            (IsApplication(s) /\ AllNums(s) /\ s.count >= 3 /\ OpOf(s) \in OpNames) =>
                LET zeroDivisor == \E i \in 2..(s.count - 1) : NumsOf(s)[i] = 0
                IN  IF OpOf(s) = <<"/">> /\ zeroDivisor
                    THEN OutcomeOf(s) = lval_err("Division by zero")
                    ELSE ~IsErr(OutcomeOf(s))

\* C4: type mismatch: an operand list holding a value that is no Number
\* makes the application the Error "Cannot operate on a non-number",
\* whatever the operator and the other operands, and no arithmetic is done.
C4_TypeMismatch ==
    Evaluated =>
        \A s \in SubSexprs(v) :
            (IsApplication(s) /\ ~AllNums(s)) =>
                OutcomeOf(s) = lval_err("Cannot operate on a non-number")

\* / over a zero divisor and a Symbol: the type Error, not the division one
C4_Witness ==
    /\ pc = "print"
    /\ v.type = LVAL_SEXPR /\ v.count = 4
    /\ v.cell[1] = lval_sym(<<"/">>)
    /\ IsNum(v.cell[2]) /\ v.cell[3] = lval_num(0) /\ IsSym(v.cell[4])
    /\ x = lval_err("Cannot operate on a non-number")

\* operands that would overflow, before an empty S-expression: no trap
C4_WitnessNoArithmetic ==
    /\ pc = "print" /\ build = "trap"
    /\ v.type = LVAL_SEXPR /\ v.count = 2
    /\ v.cell[1] = Sexpr(<<lval_sym(<<"-">>), lval_num(LONG_MIN), lval_sym(<<"-">>)>>)
    /\ x = lval_err("Cannot operate on a non-number")

\* C5: malformed leading element: two or more reduced children, none an
\* Error, the first no Symbol: the Error "S-Expression does not start with
\* a symbol", whatever the other children are.
C5_MalformedHead ==
    Evaluated =>
        \A s \in SubSexprs(v) :
            ( /\ AllReduced(s) /\ s.count >= 2
              /\ \A i \in 1..s.count : ~IsErr(Reduced(s)[i])
              /\ ~IsSym(Reduced(s)[1]) )
            => OutcomeOf(s) = lval_err("S-Expression does not start with a symbol")

\* a Number head followed by a Symbol and a Number, as in (5 + 2)
C5_Witness ==
    /\ pc = "print"
    /\ v.type = LVAL_SEXPR /\ v.count = 3
    /\ IsNum(v.cell[1]) /\ IsSym(v.cell[2]) /\ IsNum(v.cell[3])
    /\ x = lval_err("S-Expression does not start with a symbol")

\* an empty S-expression as head
C5_WitnessEmptyHead ==
    /\ pc = "print"
    /\ v.type = LVAL_SEXPR /\ v.count = 2
    /\ Reduced(v)[1] = lval_sexpr
    /\ x = lval_err("S-Expression does not start with a symbol")


\* C6: bad operator: a leading Symbol that is none of + - * / applied to
\* Numbers evaluates to an Error, never to a Number.
C6_BadOperator ==
    Evaluated =>
        \A s \in SubSexprs(v) :
            (IsApplication(s) /\ AllNums(s) /\ OpOf(s) \notin OpNames) =>
                IsErr(OutcomeOf(s))

\* C7: unary negation: - applied to one Number n is Number(-n), so that
\* (- (- n)) is n; with two or more operands - is the left-folded
\* subtraction.
C7_UnaryNegation ==
    Evaluated =>
        \A s \in SubSexprs(v) :
            (IsApplication(s) /\ AllNums(s) /\ OpOf(s) = <<"-">>) =>
                /\ s.count = 2 => OutcomeOf(s) = lval_num(-NumsOf(s)[1])
                /\ s.count >= 3 =>
                        OutcomeOf(s) = lval_num(LeftFold(<<"-">>, NumsOf(s), s.count - 1))
                /\ (s.count = 2 /\ s.cell[2].type = LVAL_SEXPR /\ s.cell[2].count = 2
                        /\ s.cell[2].cell[1] = lval_sym(<<"-">>) /\ IsNum(s.cell[2].cell[2]))
                    => OutcomeOf(s) = s.cell[2].cell[2]

\* C8: empty/singleton elision: () evaluates to (), which is no Error, and
\* a list of one child evaluates to what that child evaluates to.
C8_Elision ==
    Evaluated =>
        \A s \in SubSexprs(v) :
            /\ s.count = 0 => (OutcomeOf(s) = lval_sexpr /\ ~IsErr(OutcomeOf(s)))
            /\ s.count = 1 => OutcomeOf(s) = lval_eval(s.cell[1])

\* ((n)): a singleton nested in a singleton gives the Number
C8_Witness ==
    /\ pc = "print"
    /\ v.type = LVAL_SEXPR /\ v.count = 1
    /\ v.cell[1].type = LVAL_SEXPR /\ v.cell[1].count = 1
    /\ IsNum(v.cell[1].cell[1])
    /\ x = v.cell[1].cell[1]

\* (+): a lone Symbol is returned, no operator applied
C8_WitnessSymbol ==
    /\ pc = "print"
    /\ v = Sexpr(<<lval_sym(<<"+">>)>>)
    /\ x = lval_sym(<<"+">>)

\* (()) gives ()
C8_WitnessEmpty ==
    /\ pc = "print"
    /\ v = Sexpr(<<lval_sexpr>>)
    /\ x = lval_sexpr

\* w is an Error or an S-expression that evaluates to one
GivesErr(w) ==
    \/ IsErr(w)
    \/ w.type = LVAL_SEXPR /\ lval_eval(w) # SIGNALLED /\ IsErr(lval_eval(w))

HasError(w) == \E s \in SubTrees(w) : GivesErr(s)

RECURSIVE FirstError(_)
\* the first Error of w, children before parent, left to right
FirstError(w) ==
    IF IsErr(w) THEN w
    ELSE IF \E i \in 1..w.count : HasError(w.cell[i])
    THEN FirstError(w.cell[CHOOSE i \in 1..w.count :
                                /\ HasError(w.cell[i])
                                /\ \A j \in 1..(i - 1) : ~HasError(w.cell[j])])
    ELSE lval_eval(w)

\* C9: errors are terminal across nesting: a tree that holds an Error leaf
\* or a sub-expression reducing to an Error evaluates to the first such
\* Error, unchanged.
C9_ErrorsTerminal ==
    (Evaluated /\ HasError(v)) => (IsErr(Outcome) /\ Outcome = FirstError(v))


(***************************************************************************)
(* What C2, C3, C7 and C9 keep of their statements when no operation       *)
(* leaves the range of long.                                               *)
(***************************************************************************)
\* index among n2..nk of the first zero, 0 when there is none
FirstZeroDivisor(ns, k) ==
    IF \E i \in 2..k : ns[i] = 0
    THEN CHOOSE i \in 2..k : ns[i] = 0 /\ \A j \in 2..(i - 1) : ns[j] # 0
    ELSE 0

\* C2 within the range of long: the fold of the initial operands that stay
\* in range is the mathematical left fold.
C2_LeftFoldInRange ==
    Evaluated =>
        \A s \in SubSexprs(v) :
            ( /\ IsApplication(s) /\ AllNums(s) /\ s.count >= 3
              /\ OpOf(s) \in OpNames
              /\ OpOf(s) = <<"/">> => \A i \in 2..(s.count - 1) : NumsOf(s)[i] # 0
              /\ FoldsInRange(OpOf(s), NumsOf(s), s.count - 1) )
            => OutcomeOf(s) = lval_num(LeftFold(OpOf(s), NumsOf(s), s.count - 1))

\* C3 within the range of long: the operands before the first zero divisor
\* are folded, the ones after it are left in the list.
C3_DivisionByZeroInRange ==
    Evaluated =>
        \A s \in SubSexprs(v) :
            (IsApplication(s) /\ AllNums(s) /\ s.count >= 3 /\ OpOf(s) = <<"/">>) =>
                LET k == s.count - 1
                    z == FirstZeroDivisor(NumsOf(s), k)
                IN  (z # 0 /\ FoldsInRange(<<"/">>, NumsOf(s), z - 1)) =>
                        /\ OutcomeOf(s) = lval_err("Division by zero")
                        /\ FoldExit(Sexpr([i \in 1..k |-> lval_num(NumsOf(s)[i])]),
                                    <<"/">>).a.count = k - z

\* C7 within the range of long: - of one Number other than LONG_MIN.
C7_UnaryNegationInRange ==
    Evaluated =>
        \A s \in SubSexprs(v) :
            ( /\ IsApplication(s) /\ AllNums(s) /\ OpOf(s) = <<"-">> /\ s.count = 2
              /\ NumsOf(s)[1] # LONG_MIN )
            => OutcomeOf(s) = lval_num(-NumsOf(s)[1])

\* C9 when the process is not killed: the first Error is the result.
C9_ErrorsTerminalNoTrap ==
    (Evaluated /\ HasError(v) /\ Outcome # SIGNALLED) => Outcome = FirstError(v)


(***************************************************************************)
(* The reader.                                                             *)
(***************************************************************************)
RECURSIVE DigitsValue(_, _)
\* the number the first k characters of the digit string ds write
DigitsValue(ds, k) ==
    IF k = 0 THEN 0 ELSE 10 * DigitsValue(ds, k - 1) + DigitVal(ds[k])

\* the integer a numeral -?[0-9]+ writes
NumeralValue(s) ==
    IF s[1] = "-" THEN -DigitsValue(Tail(s), Len(s) - 1) ELSE DigitsValue(s, Len(s))

\* what the claim gives for a number-tagged node
LoweredNumber(node) ==
    IF InRange(NumeralValue(node.contents))
    THEN lval_num(NumeralValue(node.contents))
    ELSE lval_err("invalid number")

\* the children of a node that are expressions
ExprsOf(node) ==
    SelectSeq(node.children,
              LAMBDA c : c.tag # <<"regex">> /\ c.tag # <<"char">>)

IsNumberNode(node) == HasPart(node.tag, "number")

\* C10: range overflow: a number-tagged node lowers to Error("invalid
\* number") when its numeral is outside the range of long, and to the Number
\* of exactly its value when inside; never to a wrapped or truncated Number.
C10_RangeOverflow ==
    pc = "eval" =>
        \A i \in 1..Len(ExprsOf(t)) :
            LET e == ExprsOf(t)[i]
            IN  /\ IsNumberNode(e) => v.cell[i] = LoweredNumber(e)
                /\ \A j \in 1..Len(ExprsOf(e)) :
                        IsNumberNode(ExprsOf(e)[j]) =>
                            v.cell[i].cell[j] = LoweredNumber(ExprsOf(e)[j])

\* a numeral above LONG_MAX has been lowered to the Error
C10_Witness ==
    /\ pc = "eval"
    /\ \E i \in 1..Len(ExprsOf(t)) :
            /\ IsNumberNode(ExprsOf(t)[i])
            /\ NumeralValue(ExprsOf(t)[i].contents) > LONG_MAX
            /\ v.cell[i] = lval_err("invalid number")

\* a numeral below LONG_MIN has been lowered to the Error
C10_WitnessBelow ==
    /\ pc = "eval"
    /\ \E i \in 1..Len(ExprsOf(t)) :
            /\ IsNumberNode(ExprsOf(t)[i])
            /\ NumeralValue(ExprsOf(t)[i].contents) < LONG_MIN
            /\ v.cell[i] = lval_err("invalid number")

\* LONG_MIN itself has been lowered to a Number
C10_WitnessEdge ==
    /\ pc = "eval"
    /\ \E i \in 1..Len(ExprsOf(t)) :
            /\ IsNumberNode(ExprsOf(t)[i])
            /\ NumeralValue(ExprsOf(t)[i].contents) = LONG_MIN
            /\ v.cell[i] = lval_num(LONG_MIN)


\* the children of a node the claim keeps: not a literal parenthesis, not
\* tagged "regex"
KeptChildren(node) ==
    SelectSeq(node.children,
              LAMBDA c : /\ c.contents # <<"(">>
                         /\ c.contents # <<")">>
                         /\ c.tag # <<"regex">>)

RECURSIVE Lowered(_)
\* the lowered form the claim gives for a node
Lowered(node) ==
    IF HasPart(node.tag, "number") THEN LoweredNumber(node)
    ELSE IF HasPart(node.tag, "symbol") THEN lval_sym(node.contents)
    ELSE LET ks == KeptChildren(node)
         IN  Sexpr([i \in 1..Len(ks) |-> Lowered(ks[i])])

\* the root or a node tagged as an s-expression
IsSexprNode(node) == node.tag = <<">">> \/ HasPart(node.tag, "sexpr")

\* C11: reader lowering: lval_read of the root of a parsed line never meets a
\* null value and returns an S-expression whose children are, in the order of
\* the parse tree, the lowered forms of the children that are neither a
\* parenthesis nor tagged "regex": Numbers, Symbols and, for the nodes tagged
\* as s-expressions, S-expressions lowered the same way; nothing is evaluated.
C11_ReaderLowering ==
    /\ pc = "crashed" => v # NULL
    /\ pc = "eval" =>
            /\ v # NULL
            /\ v.type = LVAL_SEXPR
            /\ v.count = Len(KeptChildren(t))
            /\ v = Lowered(t)
            /\ \A i \in 1..v.count :
                    IsSexprNode(KeptChildren(t)[i]) =>
                        /\ v.cell[i].type = LVAL_SEXPR
                        /\ v.cell[i].count = Len(KeptChildren(KeptChildren(t)[i]))

\* the line (+ 2 0) has been lowered to a list holding the list + 2 0, not
\* evaluated, the parentheses and the anchors of the root left out
C11_Witness ==
    /\ pc = "eval"
    /\ Len(t.children) = 3
    /\ IsSexprNode(t.children[2])
    /\ Len(t.children[2].children) = 5
    /\ v = Sexpr(<<Sexpr(<<lval_sym(<<"+">>), lval_num(2), lval_num(0)>>)>>)

\* a list inside a list has been lowered two levels down
C11_WitnessNested ==
    /\ pc = "eval"
    /\ v.count = 1
    /\ v.cell[1].type = LVAL_SEXPR
    /\ v.cell[1].count = 2
    /\ v.cell[1].cell[2] = Sexpr(<<lval_num(-1), lval_sym(<<"/">>)>>)


(***************************************************************************)
(* The printer.                                                            *)
(***************************************************************************)
RECURSIVE NumbersAndLists(_)
\* a tree of Numbers and S-expressions only
NumbersAndLists(w) ==
    \/ w.type = LVAL_NUM
    \/ /\ w.type = LVAL_SEXPR
       /\ \A i \in 1..w.count : NumbersAndLists(w.cell[i])

\* C12: round-trip printing: a tree of Numbers and nested S-expressions,
\* printed by lval_print, parsed again and lowered by lval_read, comes back
\* structurally equal to the original.
C12_RoundTrip ==
    /\ (pc = "del" /\ NumbersAndLists(x)) => mpc_parse(out).ok
    /\ (pc = "eval" /\ NumbersAndLists(x)) => v = x

\* C12 amended: the tree comes back as the only child of the S-expression
\* lval_read makes for the root of every line.
C12_RoundTripInRoot ==
    /\ (pc = "del" /\ NumbersAndLists(x)) => mpc_parse(out).ok
    /\ (pc = "eval" /\ NumbersAndLists(x)) => v = Sexpr(<<x>>)

\* a list holding a list with a negative number has been printed and read back
C12_Witness ==
    /\ pc = "eval"
    /\ x = Sexpr(<<Sexpr(<<lval_num(LONG_MIN)>>), lval_num(2)>>)
    /\ out = <<"(", "(">> \o Decimal(LONG_MIN) \o <<")", " ", "2", ")", "\n">>
    /\ v = Sexpr(<<x>>)

\* the empty list has been printed and read back
C12_WitnessEmpty ==
    /\ pc = "eval"
    /\ x = lval_sexpr
    /\ v = Sexpr(<<lval_sexpr>>)

\* the same holds of trees with the Symbols of the grammar in them
C12_RoundTripSymbols ==
    (pc = "eval") => v = Sexpr(<<x>>)



(***************************************************************************)
(* The store.                                                              *)
(***************************************************************************)
\* the statement-by-statement evaluator returns what lval_eval returns, and is
\* terminated by a signal where lval_eval is
HeapAgrees ==
    /\ pc = "print" => x = lval_eval(v)
    /\ pc = "crashed" => lval_eval(v) = SIGNALLED

C13_WitnessNumber ==
    /\ pc = "readline"
    /\ out = lval_println(lval_num(2))
    /\ live = {}

\* before the lval_del(x) of a cycle the result is still live
C13_WitnessLive ==
    /\ pc = "del"
    /\ live = {ret}
    /\ Len(heap) > 3


\* the cell slot j of the block at s has handed its value to a running call of
\* lval_eval and has not been assigned the result yet
SlotInFlight(s, j) ==
    \E k \in 1..Len(stack) :
        /\ stack[k].v = s
        /\ stack[k].i + 1 = j
        /\ (k < Len(stack) \/ stack[k].at = "store")

\* the cell slots of live S-expressions that hold the address p
SlotsHolding(p) ==
    {sj \in UNION {{<<s, j>> : j \in 1..heap[s].count} :
                        s \in {q \in live : heap[q].type = LVAL_SEXPR}} :
        heap[sj[1]].cell[sj[2]] = p /\ ~SlotInFlight(sj[1], sj[2])}

\* the local variables of the running evaluator that hold the address p
LocalsHolding(p) ==
    {kn \in (1..Len(stack)) \X {"v", "f", "a", "x"} : stack[kn[1]][kn[2]] = p}

\* how many owners hold the block at p; ret is the value a call has returned
\* and, in main, x
Owners(p) ==
    Cardinality(SlotsHolding(p)) + Cardinality(LocalsHolding(p))
        + (IF ret = p THEN 1 ELSE 0)

\* C14: exclusive ownership: at every step of the evaluation of a tree built
\* by lval_read each live value is held by at most one owner, a cell slot of
\* one S-expression or one local variable of the running evaluator, no value
\* is released twice and no released value is read or returned, on every
\* path through lval_pop, lval_take, builtin_op and lval_eval_sexpr.
C14_ExclusiveOwnership ==
    /\ fault = ""
    /\ \A p \in live : Owners(p) <= 1
    /\ ret # NullPtr => ret \in live
    /\ \A k \in 1..Len(stack) : \A n \in {"v", "f", "a", "x"} :
            stack[k][n] # NullPtr => stack[k][n] \in live

\* the division-by-zero exit inside a list in a list: x and y released, x the
\* new Error, the operand list a still to be released
C14_Witness ==
    /\ Running
    /\ Len(stack) = 3
    /\ Top.at = "dela"
    /\ heap[Top.x] = lval_err("Division by zero")
    /\ Top.a \in live
    /\ Cardinality(live) = Len(heap) - 2
    /\ \A p \in live : Owners(p) = 1

\* the type-mismatch exit: the operand list released, f still held
C14_WitnessMismatch ==
    /\ Running
    /\ Top.at = "delf"
    /\ heap[Top.x] = lval_err("Cannot operate on a non-number")
    /\ Top.f \in live
    /\ \A p \in live : Owners(p) = 1

\* the malformed-expression exit has returned its Error to the caller's slot
C14_WitnessBadHead ==
    /\ pc = "running"
    /\ stack # <<>>
    /\ Top.at = "store"
    /\ heap[ret] = lval_err("S-Expression does not start with a symbol")
    /\ \A p \in live : Owners(p) = 1

\* every live value has an owner as well: nothing is lost on the way
C14_OwnedExactlyOnce ==
    \A p \in live : Owners(p) = 1


(***************************************************************************)
(* The shape of results.                                                   *)
(***************************************************************************)
\* a Number, an Error, a Symbol or the empty S-expression
FullyReduced(w) ==
    \/ w.type \in {LVAL_NUM, LVAL_ERR, LVAL_SYM}
    \/ w.type = LVAL_SEXPR /\ w.count = 0

\* the operand list builtin_op is given for the application s
OperandsOf(s) == Sexpr([i \in 1..(s.count - 1) |-> Reduced(s)[i + 1]])

\* C15: fully reduced result: the value lval_eval returns for a value tree,
\* and for every tree below it, is a Number, an Error, a Symbol or the empty
\* S-expression, never an S-expression that still has children; the value
\* builtin_op returns for the operands of an application is a Number or an
\* Error.
C15_FullyReduced ==
    Evaluated =>
        /\ \A s \in SubTrees(v) :
                OutcomeOf(s) # SIGNALLED => FullyReduced(OutcomeOf(s))
        /\ \A s \in SubSexprs(v) :
                IsApplication(s) =>
                    LET r == builtin_op(OperandsOf(s), OpOf(s))
                    IN  r = SIGNALLED \/ IsNum(r) \/ IsErr(r)

\* a list holding a list has been reduced to a Number
C15_Witness ==
    /\ pc = "print"
    /\ v = Sexpr(<<lval_sym(<<"-">>), Sexpr(<<lval_num(2)>>)>>)
    /\ x = lval_num(-2)

\* a list holding a list holding an Error has been reduced to the Error
C15_WitnessError ==
    /\ pc = "print"
    /\ v = Sexpr(<<Sexpr(<<Sexpr(<<lval_num(2), lval_err("invalid number")>>)>>)>>)
    /\ x = lval_err("invalid number")

\* builtin_op has returned a Number for an operator it does not know
C15_WitnessOperator ==
    /\ pc = "print"
    /\ v.type = LVAL_SEXPR
    /\ IsApplication(v)
    /\ OpOf(v) = <<"%">>
    /\ v.count = 3
    /\ IsNum(x)


(***************************************************************************)
(* Termination.                                                            *)
(***************************************************************************)
RECURSIVE NodeCount(_, _)
\* the number of values in the tree w: w and, from cell i on, all below it
NodeCount(w, i) ==
    IF w.type # LVAL_SEXPR THEN 1
    ELSE IF i > w.count THEN 1
    ELSE NodeCount(w.cell[i], 1) + NodeCount(w, i + 1)

\* no value has been given to lval_eval twice and, once lval_eval has
\* returned to main, every value of the tree read has been given to it
EachOnce ==
    /\ \A i, j \in 1..Len(evals) : i # j => evals[i] # evals[j]
    /\ pc \in {"print", "del"} =>
            {evals[i] : i \in 1..Len(evals)} = 1..NodeCount(v, 1)

\* the while loop of builtin_op is about to run its body
InFold == Running /\ Top.at = "fold" /\ heap[Top.a].count > 0

\* the body of the loop has run: one operand less, and the loop goes on or
\* a zero divisor has stopped it
FoldDecreased ==
    /\ pc' = "running"
    /\ Len(stack') = Len(stack)
    /\ heap'[Top.a].count = heap[Top.a].count - 1
    /\ \/ stack'[Len(stack)].at = "fold"
       \/ /\ stack'[Len(stack)].at = "dela"
          /\ heap'[stack'[Len(stack)].x] = lval_err("Division by zero")

\* C16: termination: lval_eval called by main eventually returns; each value
\* of the tree is evaluated exactly once; every pass of the fold loop of
\* builtin_op takes one operand off the list, until the list is empty or a
\* zero divisor stops the loop.
C16_Termination ==
    /\ (pc = "eval") ~> (pc = "print")
    /\ []EachOnce
    /\ [][InFold => FoldDecreased]_vars

\* the same with the signal of an overflow as a third way to stop: it holds
C16_TerminationOrSignal ==
    /\ (pc = "eval") ~> (pc \in {"print", "crashed"})
    /\ []EachOnce
    /\ [][InFold => (FoldDecreased \/ (pc' = "crashed" /\ build = "trap"))]_vars

\* where the arithmetic wraps lval_eval always returns
C16_TerminationWrap ==
    (pc = "eval" /\ build = "wrap") ~> (pc = "print")

\* the evaluation was stopped by a signal inside the fold loop
C16_WitnessSignal ==
    /\ pc = "crashed"
    /\ stack # <<>>
    /\ Top.at = "fold"
    /\ heap[Top.a].count > 0

====
